---------------------------- MODULE Spec2Model ----------------------------
(***************************************************************************)
(* A model of touchpad-emulator.c: the coordinate transform (map_event),   *)
(* the dispatcher (handle_event), the poll loop (mainloop) and the session *)
(* controller (main) with its scoped cleanups.                             *)
(*                                                                         *)
(* Spec     the session: main from its argument check to process exit,     *)
(*          with the environment (events arriving on the source device,    *)
(*          SIGINT, failing system calls) as nondeterministic inputs.      *)
(* SpecMap  map_event alone, called on inputs drawn from bounded sets of   *)
(*          axis ranges and raw values.                                    *)
(***************************************************************************)
EXTENDS Integers, Sequences, FiniteSets

(***************************************************************************)
(* Bounds of the model.                                                    *)
(***************************************************************************)
\* events that arrive on the source device during one session
MaxEvents == 2
\* poll() calls that fail with EINTR during one session
MaxInterrupts == 1
\* SpecMap: axis minimum in -MaxMin..MaxMin
MaxMin == 1
\* SpecMap: axis maximum in minimum..minimum+MaxWidth
MaxWidth == 3
\* SpecMap: axis resolution in 1..MaxRes
MaxRes == 2
\* SpecMap: raw values reach RawSlack units outside the widest source range
RawSlack == 1

(***************************************************************************)
(* Constants of <linux/input.h>, <errno.h> and <libevdev/libevdev.h>.      *)
(***************************************************************************)
EV_KEY == 1
EV_ABS == 3
ABS_X == 0
ABS_Y == 1
ABS_PRESSURE == 24
ABS_MT_POSITION_X == 53
ABS_MT_POSITION_Y == 54
EAGAIN == 11
ENODEV == 19
LIBEVDEV_READ_STATUS_SUCCESS == 0
LIBEVDEV_READ_STATUS_SYNC == 1

\* the codes handle_event's switch sends to map_event
PositionalCodes == {ABS_X, ABS_Y, ABS_MT_POSITION_X, ABS_MT_POSITION_Y}

(***************************************************************************)
(* struct input_absinfo (minimum, maximum, resolution) and struct          *)
(* input_event (type, code, value).                                        *)
(***************************************************************************)
AbsInfo(lo, hi, r) == [minimum |-> lo, maximum |-> hi, resolution |-> r]

InputEvent(t, c, v) == [type |-> t, code |-> c, value |-> v]

(***************************************************************************)
(* The min and max macros.                                                 *)
(***************************************************************************)
min(a, b) == IF a < b THEN a ELSE b

max(a, b) == IF a > b THEN a ELSE b

(***************************************************************************)
(* The double of map_event is kept as an exact fraction num/den.  The      *)
(* halvings (x/2.0) are exact in binary floating point; the division by    *)
(* src->resolution and the operations after it may round, and on the       *)
(* ranges and raw values used here no rounding changes the truncated       *)
(* result.  (int)val converts by discarding the fractional part, that is,  *)
(* it truncates toward zero; \div rounds down.                             *)
(***************************************************************************)
IntCastFloor(num, den) == num \div den

IntCast(num, den) ==
    IF den < 0 THEN (IF num > 0 THEN -(num \div (-den)) ELSE (-num) \div (-den))
    ELSE IF num >= 0 THEN num \div den ELSE -((-num) \div den)

(***************************************************************************)
(* Faulty variants of map_event: the clamp left out; the source minimum    *)
(* not subtracted; the offset from the centre taken with the wrong sign.   *)
(***************************************************************************)
map_event_unclamped(source, dest, event) ==
    LET src == source[event.code]
        dst == dest[event.code]
        c2  == 2 * (event.value - src.minimum) - (src.maximum - src.minimum)
        num == c2 * dst.resolution
               + (dst.maximum - dst.minimum) * src.resolution
               + 2 * dst.minimum * src.resolution
    IN  [event EXCEPT !.value = IntCast(num, 2 * src.resolution)]

map_event_nosrcmin(source, dest, event) ==
    LET src == source[event.code]
        dst == dest[event.code]
        c2  == 2 * event.value - (src.maximum - src.minimum)
        num == c2 * dst.resolution
               + (dst.maximum - dst.minimum) * src.resolution
               + 2 * dst.minimum * src.resolution
    IN  [event EXCEPT !.value =
            max(dst.minimum, min(dst.maximum, IntCast(num, 2 * src.resolution)))]

map_event_mirrored(source, dest, event) ==
    LET src == source[event.code]
        dst == dest[event.code]
        c2  == 2 * (src.minimum - event.value) + (src.maximum - src.minimum)
        num == c2 * dst.resolution
               + (dst.maximum - dst.minimum) * src.resolution
               + 2 * dst.minimum * src.resolution
    IN  [event EXCEPT !.value =
            max(dst.minimum, min(dst.maximum, IntCast(num, 2 * src.resolution)))]

(***************************************************************************)
(* map_event: source and dest are the accessors' axis tables, code ->      *)
(* absinfo.  val after line 111 is c2/(2*src.resolution) with              *)
(* c2 = 2*(value - src.minimum) - (src.maximum - src.minimum); val after   *)
(* line 113 is num/den below.                                              *)
(***************************************************************************)
map_event(source, dest, event) ==
    LET src == source[event.code]
        dst == dest[event.code]
        c2  == 2 * (event.value - src.minimum) - (src.maximum - src.minimum)
        num == c2 * dst.resolution
               + (dst.maximum - dst.minimum) * src.resolution
               + 2 * dst.minimum * src.resolution
        den == 2 * src.resolution
    IN  [event EXCEPT !.value = max(dst.minimum, min(dst.maximum, IntCast(num, den)))]

(***************************************************************************)
(* pass_event: evemu_play_one writes the event to destfd; the virtual      *)
(* device's input is the sequence of events written.                       *)
(***************************************************************************)
\* a faulty pass_event: the event is put in front of those already written
pass_event_prepend(destination, event) == <<event>> \o destination

pass_event(destination, event) == Append(destination, event)

\* a faulty handle_event: the axis ranges are looked up for every absolute-axis
\* event, whatever its code
handle_event_everyabs(source, dest, event) ==
    IF event.type # EV_ABS
    THEN [out |-> event, mapped |-> FALSE]
    ELSE IF event.code \in PositionalCodes
         THEN [out |-> map_event(source, dest, event), mapped |-> TRUE]
         ELSE [out |-> event, mapped |-> TRUE]

\* a faulty handle_event: the type of the event is not looked at
handle_event_anytype(source, dest, event) ==
    IF event.code \in PositionalCodes
    THEN [out |-> map_event(source, dest, event), mapped |-> TRUE]
    ELSE [out |-> event, mapped |-> FALSE]

(***************************************************************************)
(* handle_event: the event as forwarded (out), and whether map_event was   *)
(* called on it (mapped).                                                  *)
(***************************************************************************)
handle_event(source, dest, event) ==
    IF event.type # EV_ABS
    THEN [out |-> event, mapped |-> FALSE]
    ELSE IF event.code \in PositionalCodes
         THEN [out |-> map_event(source, dest, event), mapped |-> TRUE]
         ELSE [out |-> event, mapped |-> FALSE]

(***************************************************************************)
(* State.                                                                  *)
(***************************************************************************)
VARIABLES
    pc,          \* where main (or mainloop) stands
    res,         \* dest, sourcefd, source, dev, destfd, sigfd: unopened, open, closed
    acqLog,      \* the handles in their order of acquisition
    relLog,      \* the handles in their order of release
    grab,        \* the source device: free or exclusive
    grabLog,     \* the libevdev_grab calls that took effect
    sigBlocked,  \* SIGINT is in the process's signal mask
    sigPending,  \* a blocked SIGINT is pending: the signalfd is readable
    interrupts,  \* poll() calls that failed so far
    revents,     \* pollfd[1].revents is non-zero
    pollRet,     \* what the last poll() returned
    queue,       \* events in the kernel's queue of the source device
    arrived,     \* events that arrived so far
    rc,          \* mainloop's rc
    ev,          \* mainloop's ev
    nreads,      \* calls of libevdev_next_event so far
    readLog,     \* the events libevdev_next_event returned with SUCCESS
    written,     \* the events written to destfd
    queried,     \* the codes whose axis ranges were looked up
    sigAt,       \* nreads, Len(readLog) and Len(written) when the signalfd became
                 \* readable in the loop
    mapCall,     \* the last call of map_event: its event before and after
    prevCall,    \* the call of map_event before that
    srcAbs,      \* the source device's axis table
    dstAbs,      \* the recording's axis table
    loopRc,      \* what mainloop returned
    exitStatus,  \* what main returned
    failedAt     \* the setup step that failed

vars == <<pc, res, acqLog, relLog, grab, grabLog, sigBlocked, sigPending,
          interrupts, revents, pollRet, queue, arrived, rc, ev, nreads, readLog, written,
          queried, sigAt, mapCall, prevCall, srcAbs, dstAbs, loopRc, exitStatus,
          failedAt>>

\* the variables of the event path
evVars == <<queue, arrived, rc, ev, nreads, readLog, written, queried, mapCall, prevCall>>

\* the variables of the signal path
sigVars == <<sigBlocked, sigPending, sigAt>>

\* not set yet
Unset == 0 - 1

NoEvent == InputEvent(Unset, Unset, Unset)

NoCall == [arg |-> NoEvent, res |-> NoEvent]

Handles == {"dest", "sourcefd", "source", "dev", "destfd", "sigfd"}

\* pc inside mainloop's while loop
LoopPcs == {"poll", "check", "read", "dispatch"}

\* the process is gone
TerminalPcs == {"exited", "killed"}

(***************************************************************************)
(* The _cleanup_ handlers of main's locals run at every return, in the     *)
(* reverse of the order of declaration (lines 189-193): destfd, source,    *)
(* dev, sourcefd, dest.  fclosep, evemu_free and evdev_free act on a       *)
(* non-null handle; closep calls close() on whatever the int holds, which  *)
(* closes nothing when it is -1.  Nothing closes the signalfd.             *)
(***************************************************************************)
CleanupOrder == <<"destfd", "source", "dev", "sourcefd", "dest">>

IsOpen(h) == res[h] = "open"

Cleanup(r) ==
    [h \in Handles |->
        IF h \in {CleanupOrder[i] : i \in 1..Len(CleanupOrder)} /\ r[h] = "open"
        THEN "closed" ELSE r[h]]

Released(r) == SelectSeq(CleanupOrder, LAMBDA h : r[h] = "open")

\* return status from main
Return(status) ==
    /\ pc' = "exited"
    /\ exitStatus' = status
    /\ res' = Cleanup(res)
    /\ relLog' = relLog \o Released(res)

\* a handle acquired
Acquire(h) ==
    /\ res' = [res EXCEPT ![h] = "open"]
    /\ acqLog' = Append(acqLog, h)

(***************************************************************************)
(* The inputs of a session: the axis tables of the two devices and the     *)
(* events the source device may deliver.  The first pair of tables is the  *)
(* touchpad {0, 100, res 10} emulating {0, 50, res 5} on X; the second     *)
(* emulates a device whose axes are centred on zero.                       *)
(***************************************************************************)
AxisTable(x, y) ==
    [c \in PositionalCodes |-> IF c \in {ABS_X, ABS_MT_POSITION_X} THEN x ELSE y]

SessionSources == {AxisTable(AbsInfo(0, 100, 10), AbsInfo(0, 60, 10))}

SessionDests == {AxisTable(AbsInfo(0, 50, 5), AbsInfo(0, 30, 5)),
                 AxisTable(AbsInfo(0 - 20, 20, 4), AbsInfo(0 - 10, 10, 3))}

\* key 53 shares its number with ABS_MT_POSITION_X; 200 lies outside every range
SourceEvents ==
    {InputEvent(EV_KEY, ABS_MT_POSITION_X, 1),
     InputEvent(EV_ABS, ABS_PRESSURE, 50),
     InputEvent(EV_ABS, ABS_X, 50),
     InputEvent(EV_ABS, ABS_X, 200),
     InputEvent(EV_ABS, ABS_Y, 7),
     InputEvent(EV_ABS, ABS_MT_POSITION_X, 0),
     InputEvent(EV_ABS, ABS_MT_POSITION_Y, 50)}

\* what libevdev_next_event returns
ReadResults == {LIBEVDEV_READ_STATUS_SUCCESS, LIBEVDEV_READ_STATUS_SYNC, -EAGAIN, -ENODEV}

InitSession ==
    /\ pc = "args"
    /\ res = [h \in Handles |-> "unopened"]
    /\ acqLog = <<>>
    /\ relLog = <<>>
    /\ grab = "free"
    /\ grabLog = <<>>
    /\ sigBlocked = FALSE
    /\ sigPending = FALSE
    /\ interrupts = 0
    /\ revents = FALSE
    /\ pollRet = Unset
    /\ queue = <<>>
    /\ arrived = 0
    /\ rc = Unset
    /\ ev = NoEvent
    /\ nreads = 0
    /\ readLog = <<>>
    /\ written = <<>>
    /\ queried = {}
    /\ sigAt = [reads |-> Unset, got |-> Unset, writes |-> Unset]
    /\ mapCall = NoCall
    /\ prevCall = NoCall
    /\ loopRc = Unset
    /\ exitStatus = Unset
    /\ failedAt = "none"

Init ==
    /\ InitSession
    /\ srcAbs \in SessionSources
    /\ dstAbs \in SessionDests

(***************************************************************************)
(* main, lines 198-244: the setup steps.  A step that fails returns 1.     *)
(***************************************************************************)
\* a setup step failed: return 1
Fail(step) ==
    /\ failedAt' = step
    /\ Return(1)
    /\ UNCHANGED acqLog

\* lines 198-203
CheckArgs ==
    /\ pc = "args"
    /\ \E ok \in BOOLEAN :
         IF ok
         THEN /\ pc' = "fopen"
              /\ UNCHANGED <<res, acqLog, relLog, exitStatus, failedAt>>
         ELSE Fail("usage")
    /\ UNCHANGED <<grab, grabLog, interrupts, revents, pollRet, srcAbs, dstAbs, loopRc>>
    /\ UNCHANGED evVars
    /\ UNCHANGED sigVars

\* one setup step: it acquires handle h and goes on to next, or fails
SetupStep(at, h, next) ==
    /\ pc = at
    /\ \E ok \in BOOLEAN :
         IF ok
         THEN /\ pc' = next
              /\ Acquire(h)
              /\ UNCHANGED <<relLog, exitStatus, failedAt>>
         ELSE Fail(at)
    /\ UNCHANGED <<grab, grabLog, interrupts, revents, pollRet, srcAbs, dstAbs, loopRc>>
    /\ UNCHANGED evVars
    /\ UNCHANGED sigVars

\* lines 205-209
OpenRecording == SetupStep("fopen", "dest", "open_source")

\* lines 211-215
OpenSource == SetupStep("open_source", "sourcefd", "new_from_fd")

\* lines 217-222
NewFromFd == SetupStep("new_from_fd", "source", "evemu_read")

\* lines 224-230: evemu_new allocates dev, evemu_read parses the recording
EvemuRead ==
    /\ pc = "evemu_read"
    /\ \E ok \in BOOLEAN :
         IF ok
         THEN /\ pc' = "create_managed"
              /\ Acquire("dev")
              /\ UNCHANGED <<relLog, exitStatus, failedAt>>
         ELSE /\ failedAt' = "evemu_read"
              /\ pc' = "exited"
              /\ exitStatus' = 1
              /\ res' = Cleanup([res EXCEPT !["dev"] = "open"])
              /\ relLog' = relLog \o Released([res EXCEPT !["dev"] = "open"])
              /\ acqLog' = Append(acqLog, "dev")
    /\ UNCHANGED <<grab, grabLog, interrupts, revents, pollRet, srcAbs, dstAbs, loopRc>>
    /\ UNCHANGED evVars
    /\ UNCHANGED sigVars

\* a faulty CreateManaged: the failure is reported but main does not return
CreateManagedNoReturn ==
    /\ pc = "create_managed"
    /\ \E ok \in BOOLEAN :
         failedAt' = IF ok THEN failedAt ELSE "create_managed"
    /\ pc' = "open_destfd"
    /\ UNCHANGED <<res, acqLog, relLog, exitStatus>>
    /\ UNCHANGED <<grab, grabLog, interrupts, revents, pollRet, srcAbs, dstAbs, loopRc>>
    /\ UNCHANGED evVars
    /\ UNCHANGED sigVars

\* lines 232-237
CreateManaged ==
    /\ pc = "create_managed"
    /\ \E ok \in BOOLEAN :
         IF ok
         THEN /\ pc' = "open_destfd"
              /\ UNCHANGED <<res, acqLog, relLog, exitStatus, failedAt>>
         ELSE Fail("create_managed")
    /\ UNCHANGED <<grab, grabLog, interrupts, revents, pollRet, srcAbs, dstAbs, loopRc>>
    /\ UNCHANGED evVars
    /\ UNCHANGED sigVars

\* lines 239-259: the resolution warnings that follow only print
OpenDestFd == SetupStep("open_destfd", "destfd", "grab")

(***************************************************************************)
(* main, lines 261-267.  libevdev_grab's result is not looked at: a        *)
(* refused grab leaves the device free and the session goes on.  Ungrab    *)
(* on a device the session holds releases it; on a free device it does     *)
(* nothing.  mainloop's result is not looked at either: main returns 0.    *)
(***************************************************************************)
Grab ==
    /\ pc = "grab"
    /\ \E ok \in BOOLEAN :
         IF ok
         THEN /\ grab' = "exclusive"
              /\ grabLog' = Append(grabLog, "grab")
         ELSE UNCHANGED <<grab, grabLog>>
    /\ pc' = "mainloop"
    /\ UNCHANGED <<res, acqLog, relLog, interrupts, revents, pollRet, srcAbs, dstAbs, loopRc,
                   exitStatus, failedAt>>
    /\ UNCHANGED evVars
    /\ UNCHANGED sigVars

\* a faulty Ungrab: the device is released only after a loop that succeeded
UngrabOnSuccess ==
    /\ pc = "ungrab"
    /\ IF grab = "exclusive" /\ loopRc = 0
       THEN /\ grab' = "free"
            /\ grabLog' = Append(grabLog, "ungrab")
       ELSE UNCHANGED <<grab, grabLog>>
    /\ pc' = "return"
    /\ UNCHANGED <<res, acqLog, relLog, interrupts, revents, pollRet, srcAbs, dstAbs, loopRc,
                   exitStatus, failedAt>>
    /\ UNCHANGED evVars
    /\ UNCHANGED sigVars

Ungrab ==
    /\ pc = "ungrab"
    /\ IF grab = "exclusive"
       THEN /\ grab' = "free"
            /\ grabLog' = Append(grabLog, "ungrab")
       ELSE UNCHANGED <<grab, grabLog>>
    /\ pc' = "return"
    /\ UNCHANGED <<res, acqLog, relLog, interrupts, revents, pollRet, srcAbs, dstAbs, loopRc,
                   exitStatus, failedAt>>
    /\ UNCHANGED evVars
    /\ UNCHANGED sigVars

ReturnMain ==
    /\ pc = "return"
    /\ Return(0)
    /\ UNCHANGED <<acqLog, grab, grabLog, interrupts, revents, pollRet, srcAbs, dstAbs, loopRc,
                   failedAt>>
    /\ UNCHANGED evVars
    /\ UNCHANGED sigVars

(***************************************************************************)
(* mainloop, lines 151-159: the signalfd for SIGINT is created (signalfd   *)
(* may fail; its result is not looked at, and poll ignores a negative fd)  *)
(* and SIGINT is blocked.                                                  *)
(***************************************************************************)
MainloopSetup ==
    /\ pc = "mainloop"
    /\ \E ok \in BOOLEAN :
         IF ok THEN Acquire("sigfd") ELSE UNCHANGED <<res, acqLog>>
    /\ sigBlocked' = TRUE
    /\ pc' = "poll"
    /\ UNCHANGED <<relLog, grab, grabLog, sigPending, sigAt, interrupts, revents, pollRet,
                   srcAbs, dstAbs, loopRc, exitStatus, failedAt>>
    /\ UNCHANGED evVars

\* the signalfd is readable
ShutdownReady == IsOpen("sigfd") /\ sigPending

\* the source fd is readable
SourceReady == queue # <<>>

(***************************************************************************)
(* Line 161: poll with no timeout returns when one of the two descriptors  *)
(* is ready, and sets revents.                                             *)
(***************************************************************************)
Poll ==
    /\ pc = "poll"
    /\ ShutdownReady \/ SourceReady
    /\ revents' = ShutdownReady
    /\ pollRet' = (IF ShutdownReady THEN 1 ELSE 0) + (IF SourceReady THEN 1 ELSE 0)
    /\ pc' = "check"
    /\ UNCHANGED <<res, acqLog, relLog, grab, grabLog, interrupts, srcAbs, dstAbs, loopRc,
                   exitStatus, failedAt>>
    /\ UNCHANGED evVars
    /\ UNCHANGED sigVars

(***************************************************************************)
(* Line 161: poll fails with EINTR (the process was stopped and            *)
(* continued).  It returns -1, which the while condition takes as true;    *)
(* the kernel has written revents of 0, nothing being ready.               *)
(***************************************************************************)
PollInterrupted ==
    /\ pc = "poll"
    /\ interrupts < MaxInterrupts
    /\ ~(ShutdownReady \/ SourceReady)
    /\ interrupts' = interrupts + 1
    /\ revents' = FALSE
    /\ pollRet' = 0 - 1
    /\ pc' = "check"
    /\ UNCHANGED <<res, acqLog, relLog, grab, grabLog, srcAbs, dstAbs, loopRc,
                   exitStatus, failedAt>>
    /\ UNCHANGED evVars
    /\ UNCHANGED sigVars

\* a faulty CheckShutdown: the drain runs before revents is acted on
CheckShutdownLate ==
    /\ pc = "check"
    /\ pc' = "read"
    /\ UNCHANGED <<res, acqLog, relLog, grab, grabLog, interrupts, revents, pollRet, srcAbs, dstAbs,
                   loopRc, exitStatus, failedAt>>
    /\ UNCHANGED evVars
    /\ UNCHANGED sigVars

\* lines 165-166, and line 183 after the break
CheckShutdown ==
    /\ pc = "check"
    /\ IF revents
       THEN /\ loopRc' = 0
            /\ pc' = "ungrab"
       ELSE /\ pc' = "read"
            /\ UNCHANGED loopRc
    /\ UNCHANGED <<res, acqLog, relLog, grab, grabLog, interrupts, revents, pollRet, srcAbs, dstAbs,
                   exitStatus, failedAt>>
    /\ UNCHANGED evVars
    /\ UNCHANGED sigVars

(***************************************************************************)
(* Lines 169-176 and 180: one libevdev_next_event and the branch on its    *)
(* result r.  SUCCESS takes the head of the queue into ev; -EAGAIN says    *)
(* the queue is empty; SYNC (the kernel dropped events) and any other      *)
(* negative result may come at any read.                                   *)
(***************************************************************************)
\* a faulty ReadStatus: lost sync is not treated as fatal
ReadStatusNoSync(r) ==
    IF r # -EAGAIN /\ r < 0 THEN "return1"
    ELSE IF r = LIBEVDEV_READ_STATUS_SUCCESS THEN "handle_event"
    ELSE "none"

\* a faulty ReadStatus: every negative result is fatal, would-block included
ReadStatusAgainFatal(r) ==
    IF r = LIBEVDEV_READ_STATUS_SYNC THEN "return1"
    ELSE IF r < 0 THEN "return1"
    ELSE IF r = LIBEVDEV_READ_STATUS_SUCCESS THEN "handle_event"
    ELSE "none"

ReadStatus(r) ==
    IF r = LIBEVDEV_READ_STATUS_SYNC THEN "return1"
    ELSE IF r # -EAGAIN /\ r < 0 THEN "return1"
    ELSE IF r = LIBEVDEV_READ_STATUS_SUCCESS THEN "handle_event"
    ELSE "none"

ReadEvent ==
    /\ pc = "read"
    /\ \E r \in ReadResults :
         /\ r = LIBEVDEV_READ_STATUS_SUCCESS => queue # <<>>
         /\ r = -EAGAIN => queue = <<>>
         /\ rc' = r
         /\ nreads' = nreads + 1
         /\ IF r = LIBEVDEV_READ_STATUS_SUCCESS
            THEN /\ ev' = Head(queue)
                 /\ queue' = Tail(queue)
                 /\ readLog' = Append(readLog, Head(queue))
            ELSE UNCHANGED <<ev, queue, readLog>>
         /\ IF ReadStatus(r) = "return1"
            THEN /\ loopRc' = 1
                 /\ pc' = "ungrab"
            ELSE /\ pc' = IF ReadStatus(r) = "handle_event" THEN "dispatch"
                          ELSE IF r # -EAGAIN THEN "read"
                          ELSE "poll"
                 /\ UNCHANGED loopRc
    /\ UNCHANGED <<res, acqLog, relLog, grab, grabLog, interrupts, revents, pollRet, srcAbs, dstAbs,
                   exitStatus, failedAt, arrived, written, queried, mapCall, prevCall>>
    /\ UNCHANGED sigVars

\* a faulty HandleEvent: a pending shutdown request cuts the dispatch short
HandleEventInterruptible ==
    /\ pc = "dispatch"
    /\ IF sigPending
       THEN /\ loopRc' = 0
            /\ pc' = "ungrab"
            /\ UNCHANGED <<ev, written, queried, mapCall, prevCall>>
       ELSE /\ LET h == handle_event(srcAbs, dstAbs, ev)
               IN  /\ ev' = h.out
                   /\ written' = pass_event(written, h.out)
                   /\ IF h.mapped
                      THEN /\ queried' = queried \cup {ev.code}
                           /\ mapCall' = [arg |-> ev, res |-> h.out]
                           /\ prevCall' = mapCall
                      ELSE UNCHANGED <<queried, mapCall, prevCall>>
            /\ pc' = "read"
            /\ UNCHANGED loopRc
    /\ UNCHANGED <<res, acqLog, relLog, grab, grabLog, interrupts, revents, pollRet, srcAbs,
                   dstAbs, exitStatus, failedAt, queue, arrived, rc, nreads, readLog>>
    /\ UNCHANGED sigVars

\* a faulty HandleEvent: one read for each wake, the loop waits again after a dispatch
HandleEventThenWait ==
    /\ pc = "dispatch"
    /\ LET h == handle_event(srcAbs, dstAbs, ev)
       IN  /\ ev' = h.out
           /\ written' = pass_event(written, h.out)
           /\ IF h.mapped
              THEN /\ queried' = queried \cup {ev.code}
                   /\ mapCall' = [arg |-> ev, res |-> h.out]
                   /\ prevCall' = mapCall
              ELSE UNCHANGED <<queried, mapCall, prevCall>>
    /\ pc' = "poll"
    /\ UNCHANGED <<res, acqLog, relLog, grab, grabLog, interrupts, revents, pollRet, srcAbs, dstAbs,
                   loopRc, exitStatus, failedAt, queue, arrived, rc, nreads, readLog>>
    /\ UNCHANGED sigVars

(***************************************************************************)
(* Line 177: handle_event on the event just read (ev is changed in place), *)
(* then line 180: rc is SUCCESS, so the loop reads again.                  *)
(***************************************************************************)
HandleEvent ==
    /\ pc = "dispatch"
    /\ LET h == handle_event(srcAbs, dstAbs, ev)
       IN  /\ ev' = h.out
           /\ written' = pass_event(written, h.out)
           /\ IF h.mapped
              THEN /\ queried' = queried \cup {ev.code}
                   /\ mapCall' = [arg |-> ev, res |-> h.out]
                   /\ prevCall' = mapCall
              ELSE UNCHANGED <<queried, mapCall, prevCall>>
    /\ pc' = "read"
    /\ UNCHANGED <<res, acqLog, relLog, grab, grabLog, interrupts, revents, pollRet, srcAbs, dstAbs,
                   loopRc, exitStatus, failedAt, queue, arrived, rc, nreads, readLog>>
    /\ UNCHANGED sigVars

(***************************************************************************)
(* The environment.  The source device queues an event for the open        *)
(* sourcefd.  A SIGINT terminates the process while SIGINT is not blocked  *)
(* (no handler is installed); once blocked it stays pending and makes the  *)
(* signalfd readable; a SIGINT that is already pending is not queued a     *)
(* second time.  Events that arrive after mainloop has returned are never  *)
(* read and are left out.                                                  *)
(***************************************************************************)
Arrive ==
    /\ pc \notin TerminalPcs \cup {"ungrab", "return"}
    /\ IsOpen("sourcefd")
    /\ arrived < MaxEvents
    /\ \E e \in SourceEvents : queue' = Append(queue, e)
    /\ arrived' = arrived + 1
    /\ UNCHANGED <<pc, res, acqLog, relLog, grab, grabLog, interrupts, revents, pollRet, srcAbs,
                   dstAbs, loopRc, exitStatus, failedAt, rc, ev, nreads, readLog, written,
                   queried, mapCall, prevCall>>
    /\ UNCHANGED sigVars

Sigint ==
    /\ pc \notin TerminalPcs
    /\ ~sigPending
    /\ IF sigBlocked
       THEN /\ sigPending' = TRUE
            /\ sigAt' = IF pc \in LoopPcs /\ IsOpen("sigfd")
                        THEN [reads |-> nreads, got |-> Len(readLog),
                              writes |-> Len(written)]
                        ELSE sigAt
            /\ UNCHANGED pc
       ELSE /\ pc' = "killed"
            /\ UNCHANGED <<sigPending, sigAt>>
    /\ UNCHANGED <<res, acqLog, relLog, grab, grabLog, sigBlocked, interrupts, revents, pollRet,
                   srcAbs, dstAbs, loopRc, exitStatus, failedAt>>
    /\ UNCHANGED evVars

Next ==
    \/ CheckArgs
    \/ OpenRecording
    \/ OpenSource
    \/ NewFromFd
    \/ EvemuRead
    \/ CreateManaged
    \/ OpenDestFd
    \/ Grab
    \/ MainloopSetup
    \/ Poll
    \/ PollInterrupted
    \/ CheckShutdown
    \/ ReadEvent
    \/ HandleEvent
    \/ Ungrab
    \/ ReturnMain
    \/ Arrive
    \/ Sigint

Spec == Init /\ [][Next]_vars

(***************************************************************************)
(* SpecTimeout: the session in which poll may also return 0.  With the     *)
(* timeout of -1 that line 161 passes, poll does not return 0, so Spec has *)
(* no such step; here it may, as it would with a finite timeout.  The      *)
(* while condition of line 161 is then false, and control goes to the      *)
(* return 0 of line 183.                                                   *)
(***************************************************************************)
PollZero ==
    /\ pc = "poll"
    /\ ~(ShutdownReady \/ SourceReady)
    /\ revents' = FALSE
    /\ pollRet' = 0
    /\ loopRc' = 0
    /\ pc' = "ungrab"
    /\ UNCHANGED <<res, acqLog, relLog, grab, grabLog, interrupts, srcAbs, dstAbs,
                   exitStatus, failedAt>>
    /\ UNCHANGED evVars
    /\ UNCHANGED sigVars

NextTimeout ==
    \/ Next
    \/ PollZero

SpecTimeout == Init /\ [][NextTimeout]_vars

(***************************************************************************)
(* SpecMap: map_event on its own.  The two axis ranges are drawn from the  *)
(* bounded family below, to which the ranges {0, 100, res 10} and          *)
(* {0, 50, res 5} are added; a run makes two calls, each mapping one raw   *)
(* value of the same positional code, the second value no smaller than     *)
(* the first.                                                              *)
(***************************************************************************)
MapRanges ==
    {AbsInfo(lo, lo + w, r) : lo \in (0 - MaxMin)..MaxMin, w \in 0..MaxWidth, r \in 1..MaxRes}

MapSources == {[c \in PositionalCodes |-> a] : a \in MapRanges \cup {AbsInfo(0, 100, 10)}}

MapDests == {[c \in PositionalCodes |-> a] : a \in MapRanges \cup {AbsInfo(0, 50, 5)}}

RawValues ==
    ((0 - MaxMin - RawSlack)..(MaxMin + MaxWidth + RawSlack)) \cup {0, 50, 200}

MapCodes == {ABS_X, ABS_MT_POSITION_Y}

InitMap ==
    /\ InitSession
    /\ srcAbs \in MapSources
    /\ dstAbs \in MapDests

MapCall ==
    /\ prevCall = NoCall
    /\ \E c \in MapCodes, v \in RawValues :
         /\ mapCall # NoCall => (c = mapCall.arg.code /\ v >= mapCall.arg.value)
         /\ mapCall' = [arg |-> InputEvent(EV_ABS, c, v),
                        res |-> map_event(srcAbs, dstAbs, InputEvent(EV_ABS, c, v))]
    /\ prevCall' = mapCall
    /\ UNCHANGED <<pc, res, acqLog, relLog, grab, grabLog, interrupts, revents, pollRet, srcAbs,
                   dstAbs, loopRc, exitStatus, failedAt, queue, arrived, rc, ev, nreads,
                   readLog, written, queried>>
    /\ UNCHANGED sigVars

NextMap == MapCall

SpecMap == InitMap /\ [][NextMap]_vars

(***************************************************************************)
(* Properties of map_event, checked under SpecMap.                         *)
(***************************************************************************)
\* the calls of map_event made so far
Calls == {c \in {mapCall, prevCall} : c # NoCall}

SrcOf(c) == srcAbs[c.arg.code]

DstOf(c) == dstAbs[c.arg.code]

Abs(n) == IF n < 0 THEN -n ELSE n

\* C7: whatever the raw value, inside the source range or outside it, the value
\* map_event writes into the event lies in [dst.minimum, dst.maximum].
C7_Clamped ==
    \A c \in Calls :
        /\ DstOf(c).minimum <= c.res.value
        /\ c.res.value <= DstOf(c).maximum

\* a raw value above the source range came out as the destination maximum, and one
\* below it as the destination minimum
C7_Witness ==
    /\ prevCall # NoCall
    /\ prevCall.arg.value < SrcOf(prevCall).minimum
    /\ prevCall.res.value = DstOf(prevCall).minimum
    /\ mapCall.arg.value > SrcOf(mapCall).maximum
    /\ mapCall.res.value = DstOf(mapCall).maximum
    /\ DstOf(mapCall).minimum < DstOf(mapCall).maximum

\* v is the source range's midpoint, or one of the two integers next to it when
\* the midpoint is no integer
IsMidpoint(v, a) == Abs(2 * v - (a.minimum + a.maximum)) <= 1

\* twice the distance of the result from the destination range's midpoint
MidError2(c) == Abs(2 * c.res.value - (DstOf(c).minimum + DstOf(c).maximum))

C9_Monotone ==
    (prevCall # NoCall /\ prevCall.arg.value <= mapCall.arg.value)
        => prevCall.res.value <= mapCall.res.value

\* two calls with growing raw values and growing results, neither one clamped
C9_Witness ==
    /\ prevCall # NoCall
    /\ prevCall.arg.value < mapCall.arg.value
    /\ prevCall.res.value < mapCall.res.value
    /\ DstOf(mapCall).minimum < prevCall.res.value
    /\ mapCall.res.value < DstOf(mapCall).maximum

\* the reference value (raw - src.min - (src.max - src.min)/2) / src.res * dst.res
\* + (dst.max - dst.min)/2 + dst.min, as the fraction RefNum / RefDen
RefNum(c) ==
    (2 * (c.arg.value - SrcOf(c).minimum) - (SrcOf(c).maximum - SrcOf(c).minimum))
        * DstOf(c).resolution
    + ((DstOf(c).maximum - DstOf(c).minimum) + 2 * DstOf(c).minimum) * SrcOf(c).resolution

RefDen(c) == 2 * SrcOf(c).resolution

\* t is RefNum/RefDen truncated toward zero: it has the fraction's sign and
\* |t| <= |fraction| < |t| + 1
TruncatesTo(t, c) ==
    /\ t * RefNum(c) >= 0
    /\ Abs(t) * RefDen(c) <= Abs(RefNum(c))
    /\ Abs(RefNum(c)) < (Abs(t) + 1) * RefDen(c)

Clamp(t, a) ==
    IF t < a.minimum THEN a.minimum ELSE IF t > a.maximum THEN a.maximum ELSE t

\* C10: the result is the reference value truncated toward zero and clamped to the
\* destination range; source {0, 100, res 10} and destination {0, 50, res 5} map 50
\* to 25, 0 to 0 and 200 to 50.
C10_Reference ==
    \A c \in Calls :
        /\ \E t \in {RefNum(c) \div RefDen(c), RefNum(c) \div RefDen(c) + 1} :
              /\ TruncatesTo(t, c)
              /\ c.res.value = Clamp(t, DstOf(c))
        /\ c.res.type = c.arg.type
        /\ c.res.code = c.arg.code
        /\ (SrcOf(c) = AbsInfo(0, 100, 10) /\ DstOf(c) = AbsInfo(0, 50, 5)) =>
              /\ c.arg.value = 50 => c.res.value = 25
              /\ c.arg.value = 0 => c.res.value = 0
              /\ c.arg.value = 200 => c.res.value = 50

\* a negative reference value that is no integer, inside the destination range: the
\* result is the integer above it, not the one below
C10_Witness ==
    /\ mapCall # NoCall
    /\ RefNum(mapCall) < 0
    /\ RefNum(mapCall) % RefDen(mapCall) # 0
    /\ RefNum(mapCall) \div RefDen(mapCall) >= DstOf(mapCall).minimum
    /\ mapCall.res.value = RefNum(mapCall) \div RefDen(mapCall) + 1

(***************************************************************************)
(* Properties of the session, checked under Spec.                          *)
(***************************************************************************)
\* mainloop has returned
LoopStopped == pc \in {"ungrab", "return", "exited"}

\* C1: the exit status is 1 whenever a setup step failed or the loop reported
\* failure, and it is 0 exactly when the loop returned success.
C1_ExitStatus ==
    pc = "exited" =>
        /\ (failedAt # "none" \/ loopRc = 1) => exitStatus = 1
        /\ exitStatus = 0 <=> loopRc = 0

\* C2: whenever main has returned, after a failed setup step, after a loop that
\* succeeded or after a loop that failed, the source device is free.
C2_GrabReleased == pc = "exited" => grab = "free"

\* main returned after a loop that failed, having grabbed and released the device
C2_Witness ==
    /\ pc = "exited"
    /\ loopRc = 1
    /\ grabLog = <<"grab", "ungrab">>
    /\ grab = "free"

\* C3: when main has returned, no handle the program opened is still open.
C3_AllClosed == pc = "exited" => \A h \in Handles : res[h] # "open"

\* C4 as stated: from the moment the signalfd becomes readable while the loop runs,
\* no event is read or dispatched any more, and the loop returns success.
C4_Original ==
    sigAt.reads # Unset =>
        /\ nreads = sigAt.reads
        /\ Len(written) = sigAt.writes
        /\ LoopStopped => loopRc = 0

\* C4 as amended: once a wake finds the signalfd readable, the loop stops and returns
\* success without another read or dispatch, even with source events pending; and
\* once the loop has stopped no event is read or dispatched.  (A SIGINT that comes
\* during a drain is acted on at the next wake only.)
C4_StopAtWake ==
    [][ /\ (pc = "check" /\ revents) =>
            /\ nreads' = nreads
            /\ written' = written
            /\ pc' = "check" \/ (pc' = "ungrab" /\ loopRc' = 0)
        /\ LoopStopped =>
            /\ nreads' = nreads
            /\ written' = written
            /\ loopRc' = loopRc
            /\ pc' \in {"ungrab", "return", "exited"} ]_vars

\* the loop stopped with success at a wake that found both descriptors ready: an
\* event is left unread in the queue
C4_Witness ==
    /\ LoopStopped
    /\ loopRc = 0
    /\ revents
    /\ queue # <<>>
    /\ readLog # <<>>

\* C5: after a read that reports lost sync, mainloop has returned 1; no further read
\* is made (rc stays SYNC and the loop is not re-entered), and nothing was written
\* for that read: the events written are those read with SUCCESS.
C5_SyncLoss ==
    rc = LIBEVDEV_READ_STATUS_SYNC =>
        /\ LoopStopped
        /\ loopRc = 1
        /\ Len(written) = Len(readLog)

\* lost sync after one event was forwarded, with a further event left in the queue
C5_Witness ==
    /\ rc = LIBEVDEV_READ_STATUS_SYNC
    /\ pc = "exited"
    /\ Len(written) = 1
    /\ queue # <<>>

\* an event handle_event must pass on unchanged
IsPassthrough(e) ==
    \/ e.type # EV_ABS
    \/ e.code \notin {ABS_X, ABS_Y, ABS_MT_POSITION_X, ABS_MT_POSITION_Y}

\* C6: every event read is written once (the one in dispatch is about to be), in
\* order; one that is not an absolute-axis event, or whose code is none of the four
\* positional codes, is written with the value (and type and code) it was read with.
C6_Passthrough ==
    /\ Len(written) = IF pc = "dispatch" THEN Len(readLog) - 1 ELSE Len(readLog)
    /\ \A i \in 1..Len(written) :
          IsPassthrough(readLog[i]) => written[i] = readLog[i]

\* a key event numbered like a positional axis and a pressure event were forwarded
C6_Witness ==
    /\ Len(written) = 2
    /\ written[1] = InputEvent(EV_KEY, ABS_MT_POSITION_X, 1)
    /\ written[2] = InputEvent(EV_ABS, ABS_PRESSURE, 50)

\* C12: after a read that reports a negative status other than -EAGAIN, mainloop
\* has returned 1; no further read is made (rc stays what that read reported) and
\* nothing was written for that read.  A read that reports -EAGAIN never makes
\* mainloop return 1.
C12_ReadError ==
    /\ (nreads > 0 /\ rc < 0 /\ rc # -EAGAIN) =>
            /\ LoopStopped
            /\ loopRc = 1
            /\ Len(written) = Len(readLog)
    /\ (nreads > 0 /\ rc = -EAGAIN) => loopRc # 1

\* an event was forwarded, the next read reported would-block and the loop went
\* on; the read after the next wake reported -ENODEV and main returned
C12_Witness ==
    /\ rc = -ENODEV
    /\ nreads = 3
    /\ pc = "exited"
    /\ loopRc = 1
    /\ Len(written) = 1

\* C13: at every point of the run the events written are, in number and in order,
\* the events read with SUCCESS, each with the type and code it was read with; the
\* only event read and not yet written is the one in dispatch, so every event is
\* written before the next read is made.
C13_InOrder ==
    /\ pc # "dispatch" => Len(written) = Len(readLog)
    /\ pc = "dispatch" => (Len(written) = Len(readLog) - 1 /\ ev = readLog[Len(readLog)])
    /\ \A i \in 1..Len(written) :
          /\ written[i].type = readLog[i].type
          /\ written[i].code = readLog[i].code

\* two events of different kinds were read and written in that order, the first
\* with its value mapped, the second untouched
C13_Witness ==
    /\ Len(readLog) = 2
    /\ Len(written) = 2
    /\ readLog[1] = InputEvent(EV_ABS, ABS_X, 50)
    /\ written[1].value # 50
    /\ readLog[2] = InputEvent(EV_KEY, ABS_MT_POSITION_X, 1)
    /\ written[2] = readLog[2]

\* C14: the loop goes (back) to poll only from the setup of mainloop or from a read
\* that reported -EAGAIN; a wake that does not find the signalfd readable goes on
\* to a read, and a dispatch is followed by another read, never by poll.
C14_DrainBeforeWait ==
    [][ /\ (pc # "poll" /\ pc' = "poll") =>
            \/ pc = "mainloop"
            \/ (pc = "read" /\ nreads' = nreads + 1 /\ rc' = -EAGAIN)
        /\ (pc = "check" /\ ~revents) => pc' \in {"check", "read"}
        /\ pc = "dispatch" => pc' \in {"dispatch", "read"} ]_vars

\* one wake drained two events: two reads with SUCCESS, each dispatched, then the
\* read that reported would-block, and the loop is back at poll
C14_Witness ==
    /\ pc = "poll"
    /\ rc = -EAGAIN
    /\ nreads = 3
    /\ Len(written) = 2

\* C15: while mainloop runs, from its first poll to its return, the source device
\* is held exclusively; no event is written in a session whose grab did not take
\* effect.
C15_ExclusiveWhileRunning ==
    /\ pc \in LoopPcs => grab = "exclusive"
    /\ written # <<>> => grabLog # <<>>

Reverse(s) == [i \in 1..Len(s) |-> s[Len(s) + 1 - i]]

\* the handles main acquires, in their order of acquisition
MainAcquired == SelectSeq(acqLog, LAMBDA h : h # "sigfd")

\* C16: when main has returned, by whatever path, the handles it acquired (the
\* recording file, the source fd, the libevdev accessor, the evemu device, the
\* destination fd) have been released in the exact reverse of the order in which
\* they were acquired.
C16_ReverseRelease == pc = "exited" => relLog = Reverse(MainAcquired)

\* the handles main holds when the given setup step is attempted
AcquiredBefore(step) ==
    CASE step \in {"usage", "fopen"} -> <<>>
      [] step = "open_source" -> <<"dest">>
      [] step = "new_from_fd" -> <<"dest", "sourcefd">>
      [] step = "evemu_read" -> <<"dest", "sourcefd", "source">>
      [] step \in {"create_managed", "open_destfd"} -> <<"dest", "sourcefd", "source", "dev">>

\* C17: once a setup step has failed, main has returned 1; the device was never
\* grabbed, mainloop was not entered (no signalfd, no poll, no read) and no event
\* was written; and nothing was acquired after the failing step (evemu_new, which
\* cannot fail here, precedes evemu_read in the same step).
C17_SetupFailure ==
    failedAt # "none" =>
        /\ pc = "exited"
        /\ exitStatus = 1
        /\ grab = "free"
        /\ grabLog = <<>>
        /\ ~sigBlocked
        /\ res["sigfd"] = "unopened"
        /\ pollRet = Unset
        /\ nreads = 0
        /\ loopRc = Unset
        /\ written = <<>>
        /\ acqLog = IF failedAt = "evemu_read"
                    THEN Append(AcquiredBefore(failedAt), "dev")
                    ELSE AcquiredBefore(failedAt)
        /\ \A h \in Handles : res[h] # "open"

\* registering the virtual device failed: main returned 1 with the destination
\* handle never opened
C17_Witness ==
    /\ failedAt = "create_managed"
    /\ pc = "exited"
    /\ exitStatus = 1
    /\ res["destfd"] = "unopened"
    /\ res["dev"] = "closed"

\* C18: a SIGINT that comes once the device is held exclusively never terminates
\* the process by its default action: the process is not killed with the device
\* held (the request goes through the signalfd, and main releases the device).
C18_NoKillWhileHeld == pc = "killed" => grab # "exclusive"

\* the signalfd became readable while an event was read and not yet written
SigintInDispatch == sigAt.got # Unset /\ sigAt.got = sigAt.writes + 1

\* C19: whenever mainloop has returned, after a shutdown request or after a fatal
\* read, every event read with SUCCESS has been written; and an event that was in
\* dispatch when the shutdown request came is still in dispatch or has been written.
C19_NoTornForwarding ==
    /\ LoopStopped => Len(written) = Len(readLog)
    /\ SigintInDispatch => (pc = "dispatch" \/ Len(written) >= sigAt.got)

\* SIGINT came while the second event was in dispatch; that event was written, and
\* the loop then stopped with success at the next wake
C19_Witness ==
    /\ SigintInDispatch
    /\ sigAt.got = 2
    /\ LoopStopped
    /\ loopRc = 0
    /\ Len(written) = 2
    /\ Len(readLog) = 2

\* the events written so far that were read as positional absolute-axis events
Positional == {i \in 1..Len(written) : ~IsPassthrough(readLog[i])}

\* C20: every event is written with the type and code it was read with, and its
\* value differs from the one read only if it is an absolute-axis event with one of
\* the four positional codes; the axis ranges have been looked up only for codes of
\* such events, and map_event was only ever called on such an event.
C20_ValueOnly ==
    /\ \A i \in 1..Len(written) :
          /\ written[i].type = readLog[i].type
          /\ written[i].code = readLog[i].code
          /\ written[i].value # readLog[i].value => i \in Positional
    /\ queried = {readLog[i].code : i \in Positional}
    /\ mapCall # NoCall =>
          /\ mapCall.arg.type = EV_ABS
          /\ mapCall.arg.code \in PositionalCodes
          /\ mapCall.res.type = EV_ABS
          /\ mapCall.res.code = mapCall.arg.code

\* a pressure event went through with no lookup, then a multitouch X position was
\* mapped: only its value changed, and only its code was looked up
C20_Witness ==
    /\ Len(written) = 2
    /\ readLog[1] = InputEvent(EV_ABS, ABS_PRESSURE, 50)
    /\ written[1] = readLog[1]
    /\ readLog[2] = InputEvent(EV_ABS, ABS_MT_POSITION_X, 0)
    /\ written[2].value # 0
    /\ written[2].code = ABS_MT_POSITION_X
    /\ queried = {ABS_MT_POSITION_X}

(***************************************************************************)
(* Properties of the loop when poll may return 0, checked under            *)
(* SpecTimeout.                                                            *)
(***************************************************************************)
\* C11: once poll has returned 0 (no descriptor ready), mainloop has returned, and
\* what it returned is failure (1), not success.
C11_ZeroFails ==
    pollRet = 0 =>
        /\ LoopStopped
        /\ loopRc = 1

====
